---- MODULE Spec2Model ----
(***************************************************************************)
(* Deployer handle state machine of metaflow.runner.deployer and its two   *)
(* backends (Argo Workflows, Step Functions).                              *)
(*                                                                         *)
(* A lifecycle operation builds a command, spawns a child through the      *)
(* deployer's SubprocessManager, recovers the child's JSON payload through *)
(* a result channel (temp file or fifo) and reads the child's returncode.  *)
(* The child runs concurrently with the caller: it may write its payload   *)
(* and it may exit at any moment between two steps of the caller.          *)
(*                                                                         *)
(* Spec      create / trigger / suspend / unsuspend / terminate / delete / *)
(*           list_runs issued by independent callers on one deployer.      *)
(* SpecWait  ArgoWorkflowsTriggeredRun.wait_for_completion polling a       *)
(*           changing orchestrator status against a clock.                 *)
(* SpecRun   status, is_running and run read on one TriggeredRun while the *)
(*           orchestrator materializes and runs the workflow.              *)
(* SpecWaitRun TriggeredRun.wait_for_run polling for the run object.       *)
(* SpecBind  DeployerImpl construction, command building, the injected     *)
(*           DeployedFlow.from_deployment and the Argo reconstruction.     *)
(* SpecScope one controlling thread using the deployer in a with-block.    *)
(***************************************************************************)
EXTENDS Integers, Sequences, FiniteSets, TLC

VARIABLES
    backend,            \* DeployerImpl.TYPE of the deployer
    file_read_timeout,  \* DeployerImpl.file_read_timeout
    d,                  \* the deployer's name, flow_name, metadata, additional_info
    flows,              \* DeployedFlow handles returned by _create
    runs,               \* TriggeredRun objects constructed so far
    spawned,            \* number of children started by spm.run_command
    child,              \* caller -> the child process of its current operation
    call,               \* caller -> the lifecycle operation it is executing
    now,                \* time.time()
    wstatus,            \* the status the orchestrator reports for the workflow
    run_exists,         \* whether Run(pathspec) is found in the metadata store
    w,                  \* the wait_for_completion or wait_for_run call
    temps,              \* temp files, directories and fifos now on disk
    scope,              \* the with-block around the deployer
    bind,               \* construction, registry lookup and from_deployment
    tr                  \* property accesses on one ArgoWorkflowsTriggeredRun

vars == <<backend, file_read_timeout, d, flows, runs, spawned, child, call,
          now, wstatus, run_exists, w, temps, scope, bind, tr>>

mainVars == <<backend, file_read_timeout, d, flows, runs, spawned, child, call>>
waitVars == <<now, wstatus, run_exists, w>>
newVars == <<temps, scope, bind, tr>>

(***************************************************************************)
(* Bounds of the model.                                                    *)
(***************************************************************************)
MaxChildren == 3        \* children spawned in one behaviour
MaxClock == 8           \* last instant of the clock in SpecWait
MaxTimeout == 3         \* largest timeout handed to wait_for_completion
MaxInterval == 2        \* largest check_interval handed to wait_for_completion

\* The controlling thread of the deployer, which issues every operation, and
\* an independent caller that triggers the same DeployedFlow concurrently.
Controller == "main"
Callers == {Controller, "other"}

(***************************************************************************)
(* Python values.  Every value is a record [tag, n] so that None, strings  *)
(* and missing keys stay distinguishable and comparable.                   *)
(***************************************************************************)
None == [tag |-> "None", n |-> 0]
Absent == [tag |-> "absent", n |-> 0]       \* key not in the JSON object
Unset == [tag |-> "unset", n |-> 0]         \* attribute never assigned
EmptyDict == [tag |-> "{}", n |-> 0]
Str(k) == [tag |-> "str", n |-> k]
EmptyStr == [tag |-> "str", n |-> 0]        \* ""
\* "<flow>/argo-<k>": the pathspec the child k reports for the run it started
PathspecOf(k) == [tag |-> "pathspec", n |-> k]
\* a string without "/"
NoSlash == [tag |-> "noslash", n |-> 0]

\* The text found in a result channel, by what json.loads makes of it.
Doc(kind, name, flow_name, metadata, additional_info, pathspec) ==
    [kind |-> kind, name |-> name, flow_name |-> flow_name, metadata |-> metadata,
     additional_info |-> additional_info, pathspec |-> pathspec]

EmptyDoc == Doc("empty", Absent, Absent, Absent, Absent, Absent)
GarbledDoc == Doc("garbled", Absent, Absent, Absent, Absent, Absent)
ArrayDoc == Doc("array", Absent, Absent, Absent, Absent, Absent)

\* What a `create` child may write to its attribute file.
CreateDocs(pid) ==
    { GarbledDoc,
      ArrayDoc,
      Doc("object", Str(pid), Str(10 + pid), Str(20 + pid), Absent, Absent),
      Doc("object", Absent, Absent, Absent, Absent, Absent) }

\* What a `trigger` child may write to its attribute file.
TriggerDocs(pid) ==
    { GarbledDoc,
      Doc("object", Str(pid), Absent, Str(pid), Absent, PathspecOf(pid)),
      Doc("object", Str(pid), Absent, Str(pid), Absent, Absent),
      Doc("object", Str(pid), Absent, Str(pid), Absent, NoSlash) }

\* json.loads(content): fails on text that is not JSON
JsonLoadsOk(content) == content.kind \in {"object", "array"}
\* content_json.get exists only on a dict
HasGet(content) == content.kind = "object"
\* dict.get(key): None when the key is absent
Get(content, key) == IF content[key] = Absent THEN None ELSE content[key]
\* dict.get(key, default)
GetDefault(content, key, default) ==
    IF content[key] = Absent THEN default ELSE content[key]

(***************************************************************************)
(* Results of an operation.                                                *)
(***************************************************************************)
NoResult == [kind |-> "none", exc |-> "", val |-> FALSE]
Raise(exc) == [kind |-> "raise", exc |-> exc, val |-> FALSE]
ReturnBool(b) == [kind |-> "bool", exc |-> "", val |-> b]
ReturnFlow == [kind |-> "DeployedFlow", exc |-> "", val |-> TRUE]
ReturnRun == [kind |-> "TriggeredRun", exc |-> "", val |-> TRUE]

NoFlow == [name |-> Unset, flow_name |-> Unset, metadata |-> Unset]
NoRun == [metadata_for_flow |-> Unset, pathspec |-> Unset, name |-> Unset]

RcNone == 0 - 1          \* process.returncode of a child that has not exited
NoBound == 0 - 1         \* no result-channel read was made
BoundNotPassed == 0 - 2  \* handle_timeout called without a timeout argument

ExitCodes == {0, 1}

NoAttrs == [name |-> Unset, flow_name |-> Unset, metadata |-> Unset,
            additional_info |-> Unset]

IdleCall == [op |-> "none", pc |-> "idle", ch |-> 0, bound |-> NoBound,
             content |-> EmptyDoc, timedout |-> FALSE, delivered |-> FALSE,
             result |-> NoResult,
             flow |-> NoFlow, run |-> NoRun, rc |-> RcNone]

NoChild == [verb |-> "none", pid |-> 0, ch |-> 0, st |-> "none", code |-> RcNone,
            doc |-> EmptyDoc]

(***************************************************************************)
(* The process runner (SubprocessManager) and the children it tracks.      *)
(* The model keeps, for each caller, the child of its current operation;   *)
(* pids and channel names are numbered by the spawn they belong to.        *)
(***************************************************************************)
\* spm.run_command(...): starts the child and returns its pid without waiting
RunCommand(verb, file) ==
    [verb |-> verb, pid |-> spawned + 1, ch |-> file, st |-> "running",
     code |-> RcNone, doc |-> EmptyDoc]

\* command_obj.process.returncode: None until the child has exited
ReturnCode(c) ==
    IF child[c].st = "exited" THEN child[c].code ELSE RcNone

\* tempfile.NamedTemporaryFile(dir=temp_dir): a name no other call has
NamedTemporaryFile == spawned + 1

\* temporary_fifo(): a uniquely named fifo, opened for reading
temporary_fifo == spawned + 1

\* the path handed to the child as its attribute file is the caller's own
AttributeFileArg(ch) == ch

\* the text now in the channel `ch`: what the child given that path wrote
ChannelContent(ch) ==
    IF \E c \in Callers : child[c].ch = ch /\ child[c].doc # EmptyDoc
    THEN (CHOOSE x \in {child[c].doc : c \in {k \in Callers : child[k].ch = ch /\ child[k].doc # EmptyDoc}} : TRUE)
    ELSE EmptyDoc

\* the channel another caller of the deployer is reading, if there is one
OtherChannel(ch) ==
    IF \E c \in Callers : call[c].pc \in {"read"} /\ call[c].ch # ch
    THEN (CHOOSE x \in {call[c].ch : c \in {k \in Callers : call[k].pc \in {"read"} /\ call[k].ch # ch}} : TRUE)
    ELSE ch

\* the descriptor handle_timeout reads is the caller's own
AttributeFileRead_Shared(ch) == OtherChannel(ch)
AttributeFileRead(ch) == ch

\* a temp directory with its attribute file, or a fifo, on disk
Temp(ch) == [kind |-> "channel", n |-> ch]

\* leaving `with tempfile.TemporaryDirectory()` or `with temporary_fifo()`,
\* by return or by exception, removes what the with statement created
Release(ch) == temps \ {Temp(ch)}

CanSpawn == spawned < MaxChildren
Free(c) == call[c].pc \in {"idle", "done"}

\* the generic failures raised after the with-block
ErrorDeploying == "Error deploying"
ErrorTriggering == "Error triggering"

\* an exception raised by handle_timeout is not caught by the operation
OnReadTimeout_Swallowed(op) ==
    Raise(IF op = "create" THEN ErrorDeploying ELSE ErrorTriggering)
OnReadTimeout(op) == Raise("TimeoutFailure")

\* what a read of the channel finds: a fifo delivers what the child has
\* written so far, a temp file is read after the child has exited
Readable(c, variant) ==
    IF variant = "file" /\ child[c].st = "running"
    THEN EmptyDoc
    ELSE ChannelContent(AttributeFileRead(call[c].ch))

\* handle_timeout(channel, command_obj, timeout): the payload once bytes have
\* arrived, a timeout failure when none arrive within the bound
handle_timeout(c, op, bound, variant) ==
    LET content == Readable(c, variant) IN
    IF content = EmptyDoc
    THEN [call[c] EXCEPT !.bound = bound, !.timedout = TRUE, !.pc = "done",
                         !.result = OnReadTimeout(op)]
    ELSE [call[c] EXCEPT !.bound = bound, !.content = content,
                         !.delivered = TRUE, !.pc = "finish"]

(***************************************************************************)
(* The child process.                                                      *)
(***************************************************************************)
\* the child of a create or trigger command writes its one JSON document to
\* the attribute file it was given; once the caller has left its with-block
\* the file is gone and a late write reaches nobody
ChildWrite(c) ==
    /\ child[c].st = "running"
    /\ call[c].pc = "read"
    /\ child[c].verb \in {"create", "trigger"}
    /\ child[c].doc = EmptyDoc
    /\ \E doc \in (IF child[c].verb = "create"
                   THEN CreateDocs(child[c].pid) ELSE TriggerDocs(child[c].pid)) :
          child' = [child EXCEPT ![c].doc = doc]
    /\ UNCHANGED <<backend, file_read_timeout, d, flows, runs, spawned, call,
                   waitVars, newVars>>

\* the child exits, with or without having written, with any exit code
ChildExit(c) ==
    /\ child[c].st = "running"
    /\ \E code \in ExitCodes :
          child' = [child EXCEPT ![c].st = "exited", ![c].code = code]
    /\ UNCHANGED <<backend, file_read_timeout, d, flows, runs, spawned, call,
                   waitVars, newVars>>

(***************************************************************************)
(* DeployerImpl._create                                                    *)
(***************************************************************************)
\* lines 350-364: temp dir and file, command, spm.run_command
CreateSpawn(c) ==
    /\ Free(c) /\ CanSpawn
    /\ spawned' = spawned + 1
    /\ child' = [child EXCEPT ![c] =
                    RunCommand("create", AttributeFileArg(NamedTemporaryFile))]
    /\ call' = [call EXCEPT ![c] =
                   [IdleCall EXCEPT !.op = "create", !.pc = "read",
                                    !.ch = NamedTemporaryFile]]
    /\ temps' = temps \cup {Temp(NamedTemporaryFile)}
    /\ UNCHANGED <<backend, file_read_timeout, d, flows, runs, waitVars, scope, bind, tr>>

\* lines 366-369: handle_timeout(tfp_runner_attribute, command_obj,
\* self.file_read_timeout)
CreateHandleTimeout(c) ==
    /\ call[c].op = "create" /\ call[c].pc = "read"
    /\ call' = [call EXCEPT ![c] = handle_timeout(c, "create", file_read_timeout, "file")]
    /\ temps' = IF call'[c].pc = "done" THEN Release(call[c].ch) ELSE temps
    /\ UNCHANGED <<backend, file_read_timeout, d, flows, runs, spawned, child,
                   waitVars, scope, bind, tr>>

\* DeployedFlow.__init__: the handle copies the deployer's identity
DeployedFlowInit_Swapped(dep) ==
    [name |-> dep.flow_name, flow_name |-> dep.name, metadata |-> dep.metadata]
DeployedFlowInit(dep) ==
    [name |-> dep.name, flow_name |-> dep.flow_name, metadata |-> dep.metadata]

\* lines 370-376: the attributes taken from the payload
CreateAttrs(content) ==
    [name |-> Get(content, "name"),
     flow_name |-> Get(content, "flow_name"),
     metadata |-> Get(content, "metadata"),
     additional_info |-> GetDefault(content, "additional_info", EmptyDict)]

\* lines 370-381: json.loads, the four assignments, then the returncode test
CreateFinish(c) ==
    /\ call[c].op = "create" /\ call[c].pc = "finish"
    /\ LET content == call[c].content
           rc == ReturnCode(c)
           done == [call[c] EXCEPT !.pc = "done", !.content = EmptyDoc]
       IN
       IF ~JsonLoadsOk(content)
       THEN /\ call' = [call EXCEPT ![c] =
                           [done EXCEPT !.result = Raise("JSONDecodeError")]]
            /\ UNCHANGED <<d, flows>>
       ELSE IF ~HasGet(content)
       THEN /\ call' = [call EXCEPT ![c] =
                           [done EXCEPT !.result = Raise("AttributeError")]]
            /\ UNCHANGED <<d, flows>>
       ELSE /\ d' = CreateAttrs(content)
            /\ IF rc = 0
               THEN /\ flows' = flows \cup {DeployedFlowInit(d')}
                    /\ call' = [call EXCEPT ![c] =
                                  [done EXCEPT !.rc = rc, !.result = ReturnFlow,
                                               !.flow = DeployedFlowInit(d')]]
               ELSE /\ flows' = flows
                    /\ call' = [call EXCEPT ![c] =
                                  [done EXCEPT !.rc = rc,
                                               !.result = Raise(ErrorDeploying)]]
    /\ temps' = Release(call[c].ch)
    /\ UNCHANGED <<backend, file_read_timeout, runs, spawned, child, waitVars, scope, bind, tr>>

(***************************************************************************)
(* TriggeredRun and trigger                                                *)
(***************************************************************************)
\* TriggeredRun.__init__ lines 140-144: the attributes taken from the payload
TriggeredRunInit(content) ==
    [metadata_for_flow |-> Get(content, "metadata"),
     pathspec |-> Get(content, "pathspec"),
     name |-> Get(content, "name")]

\* the returncode test that guards the construction of the TriggeredRun
ExitedZero_NotNone(rc) == rc # RcNone
ExitedZero(rc) == rc = 0

\* after the read: TriggeredRun(deployer, content) when the returncode is 0,
\* the generic failure otherwise
TriggerOutcome(content, rc) ==
    IF ExitedZero(rc)
    THEN IF ~JsonLoadsOk(content) THEN Raise("JSONDecodeError")
         ELSE IF ~HasGet(content) THEN Raise("AttributeError")
         ELSE ReturnRun
    ELSE Raise(ErrorTriggering)

\* ArgoWorkflowsDeployedFlow.trigger lines 394-408
ArgoTriggerSpawn(c) ==
    /\ backend = "argo-workflows"
    /\ flows # {}
    /\ Free(c) /\ CanSpawn
    /\ spawned' = spawned + 1
    /\ child' = [child EXCEPT ![c] =
                    RunCommand("trigger", AttributeFileArg(temporary_fifo))]
    /\ call' = [call EXCEPT ![c] =
                   [IdleCall EXCEPT !.op = "trigger", !.pc = "read",
                                    !.ch = temporary_fifo]]
    /\ temps' = temps \cup {Temp(temporary_fifo)}
    /\ UNCHANGED <<backend, file_read_timeout, d, flows, runs, waitVars, scope, bind, tr>>

\* lines 410-413: handle_timeout(attribute_file_fd, command_obj,
\* self.deployer.file_read_timeout)
ArgoTriggerHandleTimeout(c) ==
    /\ backend = "argo-workflows"
    /\ call[c].op = "trigger" /\ call[c].pc = "read"
    /\ call' = [call EXCEPT ![c] = handle_timeout(c, "trigger", file_read_timeout, "fifo")]
    /\ temps' = IF call'[c].pc = "done" THEN Release(call[c].ch) ELSE temps
    /\ UNCHANGED <<backend, file_read_timeout, d, flows, runs, spawned, child,
                   waitVars, scope, bind, tr>>

\* lines 414-427: sync_wait, then the returncode test
ArgoTriggerFinish(c) ==
    /\ backend = "argo-workflows"
    /\ call[c].op = "trigger" /\ call[c].pc = "finish"
    /\ child[c].st = "exited"
    /\ LET content == call[c].content
           rc == ReturnCode(c)
           res == TriggerOutcome(content, rc)
           done == [call[c] EXCEPT !.pc = "done", !.content = EmptyDoc,
                                   !.rc = rc, !.result = res]
       IN
       IF res = ReturnRun
       THEN /\ runs' = runs \cup {TriggeredRunInit(content)}
            /\ call' = [call EXCEPT ![c] =
                           [done EXCEPT !.run = TriggeredRunInit(content)]]
       ELSE /\ runs' = runs
            /\ call' = [call EXCEPT ![c] = done]
    /\ temps' = Release(call[c].ch)
    /\ UNCHANGED <<backend, file_read_timeout, d, flows, spawned, child, waitVars, scope, bind, tr>>

\* step_functions_deployer.trigger lines 162-178
SfnTriggerSpawn(c) ==
    /\ backend = "step-functions"
    /\ flows # {}
    /\ Free(c) /\ CanSpawn
    /\ spawned' = spawned + 1
    /\ child' = [child EXCEPT ![c] =
                    RunCommand("trigger", AttributeFileArg(NamedTemporaryFile))]
    /\ call' = [call EXCEPT ![c] =
                   [IdleCall EXCEPT !.op = "trigger", !.pc = "read",
                                    !.ch = NamedTemporaryFile]]
    /\ temps' = temps \cup {Temp(NamedTemporaryFile)}
    /\ UNCHANGED <<backend, file_read_timeout, d, flows, runs, waitVars, scope, bind, tr>>

\* lines 180-181: handle_timeout(tfp_runner_attribute, command_obj), with no
\* timeout argument: the call is rejected for its missing argument, or the
\* read runs under whatever bound handle_timeout falls back to
SfnTriggerHandleTimeout(c) ==
    /\ backend = "step-functions"
    /\ call[c].op = "trigger" /\ call[c].pc = "read"
    /\ \/ call' = [call EXCEPT ![c] = handle_timeout(c, "trigger", BoundNotPassed, "file")]
       \/ call' = [call EXCEPT ![c].bound = BoundNotPassed, ![c].pc = "done",
                               ![c].result = Raise("TypeError")]
    /\ temps' = IF call'[c].pc = "done" THEN Release(call[c].ch) ELSE temps
    /\ UNCHANGED <<backend, file_read_timeout, d, flows, runs, spawned, child,
                   waitVars, scope, bind, tr>>

\* lines 183-191: the returncode is read without waiting for the child; the
\* TriggeredRun is constructed and then _enrich_object, which TriggeredRun
\* does not define, is called on it
SfnTriggerFinish(c) ==
    /\ backend = "step-functions"
    /\ call[c].op = "trigger" /\ call[c].pc = "finish"
    /\ LET content == call[c].content
           rc == ReturnCode(c)
           res == TriggerOutcome(content, rc)
           done == [call[c] EXCEPT !.pc = "done", !.content = EmptyDoc,
                                   !.rc = rc, !.result = res]
       IN
       IF res = ReturnRun
       THEN /\ runs' = runs \cup {TriggeredRunInit(content)}
            /\ call' = [call EXCEPT ![c] =
                           [done EXCEPT !.result = Raise("AttributeError")]]
       ELSE /\ runs' = runs
            /\ call' = [call EXCEPT ![c] = done]
    /\ temps' = Release(call[c].ch)
    /\ UNCHANGED <<backend, file_read_timeout, d, flows, spawned, child, waitVars, scope, bind, tr>>

(***************************************************************************)
(* The verbs that expect no payload.                                       *)
(***************************************************************************)
RunVerbs == {"suspend", "unsuspend", "terminate"}

\* `_, run_id = self.pathspec.split("/")`
SplitPathspec(pathspec) ==
    IF pathspec.tag = "pathspec" THEN "ok"
    ELSE IF pathspec.tag = "noslash" THEN "ValueError"
    ELSE "AttributeError"

\* the call of a verb that has spawned its child
Spawned(c, verb, pc) ==
    [call EXCEPT ![c] = [IdleCall EXCEPT !.op = verb, !.pc = pc]]

\* the call of a verb that failed before it spawned anything
Failed(c, verb, exc) ==
    [call EXCEPT ![c] = [IdleCall EXCEPT !.op = verb, !.pc = "done",
                                         !.result = Raise(exc)]]

\* ArgoWorkflowsTriggeredRun.suspend / unsuspend / terminate, up to
\* spm.run_command (lines 84-99, 119-134, 154-169)
ArgoRunVerbSpawn(c, verb, r) ==
    /\ backend = "argo-workflows"
    /\ Free(c)
    /\ IF SplitPathspec(r.pathspec) = "ok"
       THEN /\ CanSpawn
            /\ spawned' = spawned + 1
            /\ child' = [child EXCEPT ![c] = RunCommand(verb, 0)]
            /\ call' = Spawned(c, verb, "wait")
       ELSE /\ call' = Failed(c, verb, SplitPathspec(r.pathspec))
            /\ UNCHANGED <<spawned, child>>
    /\ UNCHANGED <<backend, file_read_timeout, d, flows, runs, waitVars, newVars>>

\* ArgoWorkflowsDeployedFlow.delete lines 356-368
ArgoDeleteSpawn(c) ==
    /\ backend = "argo-workflows"
    /\ flows # {}
    /\ Free(c) /\ CanSpawn
    /\ spawned' = spawned + 1
    /\ child' = [child EXCEPT ![c] = RunCommand("delete", 0)]
    /\ call' = Spawned(c, "delete", "wait")
    /\ UNCHANGED <<backend, file_read_timeout, d, flows, runs, waitVars, newVars>>

\* command_obj.sync_wait(); return command_obj.process.returncode == 0
ArgoVerbFinish(c) ==
    /\ backend = "argo-workflows"
    /\ call[c].pc = "wait"
    /\ child[c].st = "exited"
    /\ call' = [call EXCEPT ![c].pc = "done", ![c].rc = ReturnCode(c),
                            ![c].result = ReturnBool(ReturnCode(c) = 0)]
    /\ UNCHANGED <<backend, file_read_timeout, d, flows, runs, spawned, child,
                   waitVars, newVars>>

\* step_functions_deployer.terminate lines 31-46
SfnTerminateSpawn(c, r) ==
    /\ backend = "step-functions"
    /\ Free(c)
    /\ IF SplitPathspec(r.pathspec) = "ok"
       THEN /\ CanSpawn
            /\ spawned' = spawned + 1
            /\ child' = [child EXCEPT ![c] = RunCommand("terminate", 0)]
            /\ call' = Spawned(c, "terminate", "nowait")
       ELSE /\ call' = Failed(c, "terminate", SplitPathspec(r.pathspec))
            /\ UNCHANGED <<spawned, child>>
    /\ UNCHANGED <<backend, file_read_timeout, d, flows, runs, waitVars, newVars>>

\* step_functions_deployer.delete lines 123-135 and list_runs lines 86-101
SfnFlowVerbSpawn(c, verb) ==
    /\ backend = "step-functions"
    /\ flows # {}
    /\ Free(c) /\ CanSpawn
    /\ spawned' = spawned + 1
    /\ child' = [child EXCEPT ![c] = RunCommand(verb, 0)]
    /\ call' = Spawned(c, verb, "nowait")
    /\ UNCHANGED <<backend, file_read_timeout, d, flows, runs, waitVars, newVars>>

\* return command_obj.process.returncode == 0, read right after the spawn
\* (lines 48-49, 103-104, 137-138)
SfnVerbFinish(c) ==
    /\ backend = "step-functions"
    /\ call[c].pc = "nowait"
    /\ call' = [call EXCEPT ![c].pc = "done", ![c].rc = ReturnCode(c),
                            ![c].result = ReturnBool(ReturnCode(c) = 0)]
    /\ UNCHANGED <<backend, file_read_timeout, d, flows, runs, spawned, child,
                   waitVars, newVars>>

(***************************************************************************)
(* ArgoWorkflowsTriggeredRun.status / is_running / wait_for_completion     *)
(***************************************************************************)
NoTimeout == 0 - 1       \* timeout=None
Never == 0 - 1           \* no instant yet

IdleWait == [pc |-> "idle", pathspec |-> PathspecOf(1), start |-> 0,
             timeout |-> NoTimeout, interval |-> 1, seen |-> "None",
             elapsed |-> 0, notRunningAt |-> Never]

\* get_status_considering_run_object(status, run): a workflow that runs while
\* its Run object does not exist yet is still Pending
get_status_considering_run_object(status, run) ==
    IF status = "Running" /\ ~run THEN "Pending" ELSE status

\* ArgoWorkflows.get_workflow_status(flow_name, name): the orchestrator's
\* status string, None for a workflow it does not know
get_workflow_status == wstatus

\* status, lines 236-239: None when the orchestrator knows no such workflow
StatusOf_UnknownAsPending(orchestrator) ==
    IF orchestrator # "None"
    THEN get_status_considering_run_object(orchestrator, run_exists)
    ELSE "Pending"
StatusOf(orchestrator) ==
    IF orchestrator # "None"
    THEN get_status_considering_run_object(orchestrator, run_exists)
    ELSE "None"

\* status, lines 234-239, for a pathspec that splits
Status == StatusOf(get_workflow_status)

\* is_running, line 217
IsRunning_NotNone(workflow_status) == workflow_status # "None"
IsRunning(workflow_status) ==
    workflow_status # "None" /\ workflow_status \in {"Pending", "Running"}

\* line 196: timeout is not None and (time.time() - start_time) > timeout
TimedOut_AtLeast(timeout, elapsed) == timeout # NoTimeout /\ elapsed >= timeout
TimedOut(timeout, elapsed) == timeout # NoTimeout /\ elapsed > timeout

\* the first instant since the call began at which the run is not running
NoteNotRunning(status, at) ==
    IF w.pc \in {"poll", "check", "sleep"}
       /\ w.notRunningAt = Never /\ ~IsRunning(status)
    THEN [w EXCEPT !.notRunningAt = at]
    ELSE w

\* time passes while the caller evaluates is_running or reads the clock
Tick ==
    /\ w.pc \in {"poll", "check", "run_poll", "run_check"}
    /\ now < MaxClock
    /\ now' = now + 1
    /\ UNCHANGED <<mainVars, newVars, wstatus, run_exists, w>>

\* the orchestrator moves the workflow on
StatusAdvance ==
    /\ \E next \in {"Pending", "Running", "Succeeded", "Failed"} :
          /\ \/ wstatus = "None" /\ next = "Pending"
             \/ wstatus = "Pending" /\ next = "Running"
             \/ wstatus = "Running" /\ next \in {"Succeeded", "Failed"}
          /\ wstatus' = next
          /\ w' = NoteNotRunning(
                    get_status_considering_run_object(next, run_exists), now)
    /\ UNCHANGED <<mainVars, newVars, now, run_exists>>

\* the start task begins and the Run object becomes available
RunAppears ==
    /\ wstatus = "Running" /\ ~run_exists
    /\ run_exists' = TRUE
    /\ UNCHANGED <<mainVars, newVars, now, wstatus, w>>

\* wait_for_completion(check_interval, timeout), line 194
WaitBegin(check_interval, timeout) ==
    /\ w.pc = "idle"
    /\ w' = [w EXCEPT !.pc = "poll", !.start = now, !.timeout = timeout,
                      !.interval = check_interval,
                      !.notRunningAt = IF IsRunning(Status) THEN Never ELSE now]
    /\ UNCHANGED <<mainVars, newVars, now, wstatus, run_exists>>

\* line 195: while self.is_running
WaitPoll ==
    /\ w.pc = "poll"
    /\ IF SplitPathspec(w.pathspec) # "ok"
       THEN w' = [w EXCEPT !.pc = "crashed"]
       ELSE w' = [w EXCEPT !.seen = Status,
                           !.pc = IF IsRunning(Status) THEN "check" ELSE "returned"]
    /\ UNCHANGED <<mainVars, newVars, now, wstatus, run_exists>>

\* lines 196-199
WaitCheck ==
    /\ w.pc = "check"
    /\ w' = [w EXCEPT !.elapsed = now - w.start,
                      !.pc = IF TimedOut(w.timeout, now - w.start)
                             THEN "raised" ELSE "sleep"]
    /\ UNCHANGED <<mainVars, newVars, now, wstatus, run_exists>>

\* line 200: time.sleep(check_interval)
WaitSleep ==
    /\ w.pc = "sleep"
    /\ now + w.interval <= MaxClock
    /\ now' = now + w.interval
    /\ w' = [w EXCEPT !.pc = "poll"]
    /\ UNCHANGED <<mainVars, newVars, wstatus, run_exists>>

\* no synthesized flow definition
NoContents == [project_decorator |-> None, flow_name |-> EmptyStr,
               params_code |-> <<>>]

NoScope == [pc |-> "none", cleanups |-> 0, exc |-> NoResult, suppressed |-> FALSE]
IdleBind == [pc |-> "idle", op |-> "none", n |-> 0, type |-> "none",
             impl |-> "none", identifier |-> 0, metadata |-> None,
             contents |-> NoContents, file |-> 0,
             result |-> NoResult, spms |-> 0, spawns |-> 0, files |-> 0,
             handles |-> {}]
IdleRun == [pathspec |-> PathspecOf(1), text |-> <<>>,
            status |-> "unread", orch |-> "unread", queried |-> <<>>,
            running |-> "unread", running_status |-> "unread",
            run |-> "unread", found |-> FALSE, first_run |-> "unread",
            first_status |-> "unread"]

DefaultFileReadTimeout == 3600

Init ==
    /\ backend \in {"argo-workflows", "step-functions"}
    /\ file_read_timeout = DefaultFileReadTimeout
    /\ d = NoAttrs
    /\ flows = {}
    /\ runs = {}
    /\ spawned = 0
    /\ child = [c \in Callers |-> NoChild]
    /\ call = [c \in Callers |-> IdleCall]
    /\ now = 0
    /\ wstatus = "None"
    /\ run_exists = FALSE
    /\ w = IdleWait
    /\ temps = {}
    /\ scope = NoScope
    /\ bind = IdleBind
    /\ tr = IdleRun

Next ==
    \/ \E c \in Callers : ChildWrite(c)
    \/ \E c \in Callers : ChildExit(c)
    \/ CreateSpawn(Controller)
    \/ CreateHandleTimeout(Controller)
    \/ CreateFinish(Controller)
    \/ \E c \in Callers : ArgoTriggerSpawn(c)
    \/ \E c \in Callers : ArgoTriggerHandleTimeout(c)
    \/ \E c \in Callers : ArgoTriggerFinish(c)
    \/ \E c \in Callers : SfnTriggerSpawn(c)
    \/ \E c \in Callers : SfnTriggerHandleTimeout(c)
    \/ \E c \in Callers : SfnTriggerFinish(c)
    \/ \E verb \in RunVerbs, r \in runs : ArgoRunVerbSpawn(Controller, verb, r)
    \/ ArgoDeleteSpawn(Controller)
    \/ ArgoVerbFinish(Controller)
    \/ \E r \in runs : SfnTerminateSpawn(Controller, r)
    \/ \E verb \in {"delete", "list_runs"} : SfnFlowVerbSpawn(Controller, verb)
    \/ SfnVerbFinish(Controller)

Spec == Init /\ [][Next]_vars

\* A TriggeredRun of an Argo deployer, its workflow possibly not yet known to
\* the orchestrator, and a caller waiting for it.
InitWait ==
    /\ backend = "argo-workflows"
    /\ file_read_timeout = DefaultFileReadTimeout
    /\ d = NoAttrs
    /\ flows = {}
    /\ runs = {}
    /\ spawned = 0
    /\ child = [c \in Callers |-> NoChild]
    /\ call = [c \in Callers |-> IdleCall]
    /\ now = 0
    /\ wstatus \in {"None", "Pending", "Running", "Succeeded"}
    /\ run_exists = FALSE
    /\ \E p \in {PathspecOf(1), None} : w = [IdleWait EXCEPT !.pathspec = p]
    /\ temps = {}
    /\ scope = NoScope
    /\ bind = IdleBind
    /\ tr = IdleRun

NextWait ==
    \/ Tick
    \/ StatusAdvance
    \/ RunAppears
    \/ \E i \in 1..MaxInterval, t \in {NoTimeout} \cup (0..MaxTimeout) : WaitBegin(i, t)
    \/ WaitPoll
    \/ WaitCheck
    \/ WaitSleep

SpecWait == InitWait /\ [][NextWait]_vars

(***************************************************************************)
(* The properties of one ArgoWorkflowsTriggeredRun, read one at a time:    *)
(* status, is_running, run.                                                *)
(***************************************************************************)
\* pathspecs as Python strings, character by character
ArgoPathspecText ==
    <<"M", "y", "F", "l", "o", "w", "/", "a", "r", "g", "o", "-", "X">>
SfnPathspecText ==
    <<"M", "y", "F", "l", "o", "w", "/", "s", "f", "n", "-", "a", "b", "c", "1", "2", "3">>

\* the characters of `s` before its first "/" (all of it when there is none)
BeforeSlash(s) ==
    LET idx == {i \in 1..Len(s) : s[i] = "/"} IN
    IF idx = {} THEN s
    ELSE SubSeq(s, 1, (CHOOSE i \in idx : \A j \in idx : i <= j) - 1)

\* the characters of `s` after its first "/"
AfterSlash(s) ==
    LET idx == {i \in 1..Len(s) : s[i] = "/"} IN
    IF idx = {} THEN <<>>
    ELSE SubSeq(s, (CHOOSE i \in idx : \A j \in idx : i <= j) + 1, Len(s))

\* line 235: name = run_id[5:]
RunIdOffset == 5
RunName(run_id) == SubSeq(run_id, RunIdOffset + 1, Len(run_id))

\* lines 234-236: the arguments of ArgoWorkflows.get_workflow_status
StatusQuery(text) == <<BeforeSlash(text), RunName(AfterSlash(text))>>

\* Run(self.pathspec, _namespace_check=False): raises MetaflowNotFound until
\* the run of that pathspec exists in the metadata store
RunFound(pathspec) == pathspec = PathspecOf(1) /\ run_exists

\* run, lines 192-195: looked up on every access, None on MetaflowNotFound
RunProperty_Cached(pathspec, last) ==
    IF last # "unread" THEN last
    ELSE IF RunFound(pathspec) THEN "Run" ELSE "None"
RunProperty(pathspec, last) == IF RunFound(pathspec) THEN "Run" ELSE "None"

\* status, lines 234-239: the orchestrator is asked on every access
StatusProperty_Cached(last) ==
    IF last \notin {"unread", "raised"} THEN last
    ELSE StatusOf(get_workflow_status)
StatusProperty(last) == StatusOf(get_workflow_status)

\* triggered_run.status
StatusAccess ==
    /\ IF SplitPathspec(tr.pathspec) # "ok"
       THEN tr' = [tr EXCEPT !.status = "raised", !.orch = "unread"]
       ELSE tr' = [tr EXCEPT !.queried = StatusQuery(tr.text),
                             !.orch = get_workflow_status,
                             !.status = StatusProperty(tr.status),
                             !.first_status = IF tr.first_status = "unread"
                                              THEN StatusProperty(tr.status)
                                              ELSE tr.first_status]
    /\ UNCHANGED <<mainVars, waitVars, temps, scope, bind>>

\* triggered_run.is_running, lines 213-217
IsRunningAccess ==
    /\ IF SplitPathspec(tr.pathspec) # "ok"
       THEN tr' = [tr EXCEPT !.running = "raised", !.running_status = "raised"]
       ELSE tr' = [tr EXCEPT
                     !.queried = StatusQuery(tr.text),
                     !.running_status = StatusProperty(tr.status),
                     !.running = IF IsRunning(StatusProperty(tr.status))
                                 THEN "True" ELSE "False"]
    /\ UNCHANGED <<mainVars, waitVars, temps, scope, bind>>

\* triggered_run.run
RunAccess ==
    /\ tr' = [tr EXCEPT !.run = RunProperty(tr.pathspec, tr.run),
                        !.found = RunFound(tr.pathspec),
                        !.first_run = IF tr.first_run = "unread"
                                      THEN RunProperty(tr.pathspec, tr.run)
                                      ELSE tr.first_run]
    /\ UNCHANGED <<mainVars, waitVars, temps, scope, bind>>

\* A TriggeredRun whose pathspec came from the trigger payload, read while
\* the orchestrator materializes and runs the workflow.
InitRun ==
    /\ backend = "argo-workflows"
    /\ file_read_timeout = DefaultFileReadTimeout
    /\ d = NoAttrs
    /\ flows = {}
    /\ runs = {}
    /\ spawned = 0
    /\ child = [c \in Callers |-> NoChild]
    /\ call = [c \in Callers |-> IdleCall]
    /\ now = 0
    /\ wstatus = "None"
    /\ run_exists = FALSE
    /\ w = IdleWait
    /\ temps = {}
    /\ scope = NoScope
    /\ bind = IdleBind
    /\ \/ tr = [IdleRun EXCEPT !.text = ArgoPathspecText]
       \/ tr = [IdleRun EXCEPT !.text = SfnPathspecText]
       \/ tr = [IdleRun EXCEPT !.pathspec = None]

NextRun ==
    \/ StatusAdvance
    \/ RunAppears
    \/ StatusAccess
    \/ IsRunningAccess
    \/ RunAccess

SpecRun == InitRun /\ [][NextRun]_vars

(***************************************************************************)
(* TriggeredRun.wait_for_run, deployer.py lines 146-175                    *)
(***************************************************************************)
RunCheckInterval == 5    \* line 165: check_interval = 5

\* line 170: timeout is not None and (time.time() - start_time) > timeout
RunTimedOut_IgnoresNone(timeout, elapsed) == elapsed > timeout
RunTimedOut(timeout, elapsed) == timeout # NoTimeout /\ elapsed > timeout

\* lines 164-165
WaitForRunBegin(timeout) ==
    /\ w.pc = "idle"
    /\ w' = [w EXCEPT !.pc = "run_poll", !.start = now, !.timeout = timeout,
                      !.interval = RunCheckInterval]
    /\ UNCHANGED <<mainVars, newVars, now, wstatus, run_exists>>

\* lines 167-168: if self.run is not None: return self.run
WaitForRunPoll ==
    /\ w.pc = "run_poll"
    /\ LET run == RunProperty(w.pathspec, "unread") IN
       w' = [w EXCEPT !.seen = run,
                      !.pc = IF run # "None" THEN "run_returned" ELSE "run_check"]
    /\ UNCHANGED <<mainVars, newVars, now, wstatus, run_exists>>

\* lines 170-173
WaitForRunCheck ==
    /\ w.pc = "run_check"
    /\ w' = [w EXCEPT !.elapsed = now - w.start,
                      !.pc = IF RunTimedOut(w.timeout, now - w.start)
                             THEN "run_raised" ELSE "run_sleep"]
    /\ UNCHANGED <<mainVars, newVars, now, wstatus, run_exists>>

\* line 175: time.sleep(check_interval)
WaitForRunSleep ==
    /\ w.pc = "run_sleep"
    /\ now + w.interval <= MaxClock
    /\ now' = now + w.interval
    /\ w' = [w EXCEPT !.pc = "run_poll"]
    /\ UNCHANGED <<mainVars, newVars, wstatus, run_exists>>

NextWaitRun ==
    \/ Tick
    \/ StatusAdvance
    \/ RunAppears
    \/ \E t \in {NoTimeout} \cup (0..MaxTimeout) : WaitForRunBegin(t)
    \/ WaitForRunPoll
    \/ WaitForRunCheck
    \/ WaitForRunSleep

SpecWaitRun == InitWait /\ [][NextWaitRun]_vars

(***************************************************************************)
(* Binding a deployer: DeployerImpl.__init__, get_lower_level_group, the   *)
(* from_deployment that DeployedFlowMeta injects, and the reconstruction   *)
(* written in ArgoWorkflowsDeployedFlow.from_deployment.                   *)
(***************************************************************************)
MaxBindOps == 3          \* operations of this group in one behaviour
RecursionLimit == 3      \* depth at which the interpreter stops a recursion

NoType == "None"                        \* TYPE: ClassVar[Optional[str]] = None
Types == {"argo-workflows", "step-functions", NoType}

ReturnNone == [kind |-> "None", exc |-> "", val |-> FALSE]
ReturnImpl == [kind |-> "DeployerImpl", exc |-> "", val |-> TRUE]
ReturnCommand == [kind |-> "command", exc |-> "", val |-> TRUE]

\* get_lower_level_group, lines 46-50
get_lower_level_group(_type) ==
    IF _type = NoType THEN Raise("ValueError") ELSE ReturnCommand

\* DeployerImpl.__init__, lines 295-320: the TYPE test comes first, the
\* SubprocessManager is created at line 318
DeployerImplNew_CheckLast(type, b) ==
    IF type = NoType
    THEN [b EXCEPT !.spms = b.spms + 1, !.result = Raise("ValueError")]
    ELSE [b EXCEPT !.spms = b.spms + 1, !.result = ReturnImpl]
DeployerImplNew(type, b) ==
    IF type = NoType
    THEN [b EXCEPT !.result = Raise("ValueError")]
    ELSE [b EXCEPT !.spms = b.spms + 1, !.result = ReturnImpl]

\* the start of one operation of this group
BindOp(op) == [bind EXCEPT !.pc = "done", !.op = op, !.n = bind.n + 1,
                           !.type = "none", !.impl = "none",
                           !.identifier = 0, !.metadata = None,
                           !.contents = NoContents, !.file = 0,
                           !.result = NoResult]

\* SomeDeployerImpl(flow_file, ...) for a class whose TYPE is `type`
DeployerImplInit(type) ==
    /\ bind.pc \in {"idle", "done"} /\ bind.n < MaxBindOps
    /\ bind' = DeployerImplNew(type, [BindOp("__init__") EXCEPT !.type = type])
    /\ UNCHANGED <<mainVars, waitVars, temps, scope, tr>>

\* the start of every verb: get_lower_level_group(api, top_level_kwargs,
\* TYPE, deployer_kwargs).<verb>(...), then spm.run_command on the command
\* (_create lines 355-364): nothing is spawned when the group lookup raises
BuildAndRunCommand(type) ==
    /\ bind.pc \in {"idle", "done"} /\ bind.n < MaxBindOps
    /\ LET b == [BindOp("command") EXCEPT !.type = type]
           group == get_lower_level_group(type)
       IN
       bind' = IF group.kind = "raise"
               THEN [b EXCEPT !.result = group]
               ELSE [b EXCEPT !.result = group, !.spawns = b.spawns + 1]
    /\ UNCHANGED <<mainVars, waitVars, temps, scope, tr>>

\* DeployedFlowMeta.__new__, lines 204-209: provider.TYPE.replace("-", "_")
allowed_providers == {"argo_workflows", "step_functions"}

\* impl values a caller may pass
Impls == allowed_providers \cup {"argo-workflows", "airflow"}

\* provider.DEPLOYED_FLOW_TYPE: StepFunctionsDeployer inherits None from
\* DeployerImpl (line 283); the Argo provider names ArgoWorkflowsDeployedFlow
DeployedFlowType(impl) ==
    IF impl = "argo_workflows" THEN "ArgoWorkflowsDeployedFlow" ELSE "None"

\* the function f of lines 212-220, which the metaclass sets as
\* from_deployment on DeployedFlow and on every subclass of it (line 224): for
\* a registered impl it calls from_deployment on the provider's
\* DEPLOYED_FLOW_TYPE, which is f again; for any other impl it falls off the
\* end of the function and returns None
RECURSIVE InjectedFromDeployment(_, _)
InjectedFromDeployment(impl, depth) ==
    IF impl \in allowed_providers
    THEN IF DeployedFlowType(impl) = "None" THEN Raise("AttributeError")
         ELSE IF depth >= RecursionLimit THEN Raise("RecursionError")
         ELSE InjectedFromDeployment(impl, depth + 1)
    ELSE ReturnNone

\* DeployedFlow.from_deployment(identifier, metadata, impl)
DeployedFlowFromDeployment(identifier, metadata, impl) ==
    /\ bind.pc \in {"idle", "done"} /\ bind.n < MaxBindOps
    /\ bind' = [BindOp("DeployedFlow.from_deployment") EXCEPT
                   !.impl = impl, !.identifier = identifier,
                   !.metadata = metadata,
                   !.result = InjectedFromDeployment(impl, 0)]
    /\ UNCHANGED <<mainVars, waitVars, temps, scope, tr>>

(***************************************************************************)
(* ArgoWorkflowsDeployedFlow.from_deployment as written, lines 249-322.    *)
(***************************************************************************)
StartsWith(s, prefix) ==
    Len(s) >= Len(prefix) /\ SubSeq(s, 1, Len(prefix)) = prefix
Drop(s, k) == SubSeq(s, k + 1, Len(s))

ProdDot == <<"p", "r", "o", "d", ".">>
TestDot == <<"t", "e", "s", "t", ".">>
Prod == <<"p", "r", "o", "d">>
NoBranch == <<>>                         \* annotation absent: None

\* a parameter descriptor of the metaflow/parameters annotation
Param(var, type, required, extras) ==
    [python_var_name |-> var, name |-> var, type |-> type,
     description |-> var, is_required |-> required,
     is_text |-> IF extras THEN "False" ELSE "absent",
     encoding |-> IF extras THEN "latin-1" ELSE "absent"]

\* the annotations of a workflow template
Annotations(flow_name, parameters, branch_name, project_name) ==
    [found |-> TRUE, flow_name |-> flow_name, owner |-> Str(51),
     has_parameters |-> TRUE, parameters |-> parameters,
     branch_name |-> branch_name, project_name |-> project_name]

NoTemplate ==
    [Annotations(Absent, <<>>, NoBranch, None) EXCEPT !.found = FALSE]

Identifiers == 1..8

\* client.get_workflow_template(identifier): what the orchestrator stores
get_workflow_template(identifier) ==
    CASE identifier = 1 ->
           Annotations(Str(41), <<Param("a", "JSON", "True", FALSE),
                                  Param("b", "FilePath", "False", FALSE),
                                  Param("c", "int", "False", FALSE)>>,
                       NoBranch, None)
      [] identifier = 2 ->
           Annotations(Str(42), <<Param("b", "FilePath", "True", TRUE)>>,
                       ProdDot \o <<"a">>, Str(61))
      [] identifier = 3 -> NoTemplate
      [] identifier = 4 ->
           [Annotations(Str(44), <<>>, NoBranch, None)
               EXCEPT !.has_parameters = FALSE]
      [] identifier = 5 -> Annotations(Absent, <<>>, NoBranch, None)
      [] identifier = 6 ->
           Annotations(Str(46), <<>>, TestDot \o <<"a">>, Str(61))
      [] identifier = 7 -> Annotations(Str(47), <<>>, Prod, Str(61))
      [] OTHER ->
           Annotations(Str(48), <<>>, <<"u", "s", "e", "r", ".", "a">>, Str(61))

\* lines 287-295: production / branch from the branch_name annotation
ProjectKwargs_BareProdFirst(branch_name) ==
    IF branch_name = NoBranch THEN [production |-> "absent", branch |-> <<>>]
    ELSE IF StartsWith(branch_name, Prod)
    THEN [production |-> "True", branch |-> <<>>]
    ELSE IF StartsWith(branch_name, TestDot)
    THEN [production |-> "absent", branch |-> Drop(branch_name, Len(TestDot))]
    ELSE [production |-> "absent", branch |-> <<>>]
ProjectKwargs(branch_name) ==
    IF branch_name = NoBranch THEN [production |-> "absent", branch |-> <<>>]
    ELSE IF StartsWith(branch_name, ProdDot)
    THEN [production |-> "True", branch |-> Drop(branch_name, Len(ProdDot))]
    ELSE IF StartsWith(branch_name, TestDot)
    THEN [production |-> "absent", branch |-> Drop(branch_name, Len(TestDot))]
    ELSE IF branch_name = Prod
    THEN [production |-> "True", branch |-> <<>>]
    ELSE [production |-> "absent", branch |-> <<>>]

\* lines 22-45: the line of code written for one parameter
ParamCode(param_details) ==
    IF param_details.type = "JSON"
    THEN [ctor |-> "Parameter", var |-> param_details.python_var_name,
          name |-> param_details.name, type |-> "JSONType",
          help |-> param_details.description,
          required |-> param_details.is_required,
          is_text |-> "", encoding |-> ""]
    ELSE IF param_details.type = "FilePath"
    THEN [ctor |-> "IncludeFile", var |-> param_details.python_var_name,
          name |-> param_details.name, type |-> "",
          help |-> param_details.description,
          required |-> param_details.is_required,
          is_text |-> IF param_details.is_text = "absent"
                      THEN "True" ELSE param_details.is_text,
          encoding |-> IF param_details.encoding = "absent"
                       THEN "utf-8" ELSE param_details.encoding]
    ELSE [ctor |-> "Parameter", var |-> param_details.python_var_name,
          name |-> param_details.name, type |-> param_details.type,
          help |-> param_details.description,
          required |-> param_details.is_required,
          is_text |-> "", encoding |-> ""]

\* generate_fake_flow_file_contents, lines 17-62
generate_fake_flow_file_contents(flow_name, param_info, project_name) ==
    [project_decorator |->
         IF project_name \notin {None, EmptyStr} THEN project_name ELSE None,
     flow_name |-> flow_name,
     params_code |-> [i \in 1..Len(param_info) |-> ParamCode(param_info[i])]]

\* the flow file on disk, lines 300-302
FlowFile(k) == [kind |-> "flowfile", n |-> k]

\* MetaflowAPI.from_cli(flow_file, start): the parameters of the flow the
\* file defines; a file whose class statement has no name defines none
FromCliOk(contents) == contents.flow_name # EmptyStr
ParametersOf(contents) ==
    {contents.params_code[i] : i \in 1..Len(contents.params_code)}

\* get_metadata(): the metadata provider configured in this process
get_metadata == Str(31)

\* lines 304-313: name=identifier is handed to argo_workflows() only when the
\* template carries no branch annotation
DeployerKwargs(branch_name, identifier) ==
    IF branch_name = NoBranch
    THEN [name |-> Str(identifier)] ELSE [name |-> Absent]

\* lines 317-320: the supplied metadata, or the current one when none is given
StampMetadata_AlwaysCurrent(metadata) == get_metadata
StampMetadata(metadata) == IF metadata = None THEN get_metadata ELSE metadata

\* lines 315-320: the identity stamped on the rebound deployer
StampIdentity_FromFile(identifier, flow_name, metadata, file) ==
    [name |-> Str(70 + file), flow_name |-> flow_name,
     metadata |-> StampMetadata(metadata)]
StampIdentity(identifier, flow_name, metadata, file) ==
    [name |-> Str(identifier), flow_name |-> flow_name,
     metadata |-> StampMetadata(metadata)]

\* lines 268-302: fetch the template, read its annotations, synthesize the
\* flow definition and write it to a NamedTemporaryFile(delete=False)
ArgoFromDeploymentSynthesize(identifier, metadata) ==
    /\ bind.pc \in {"idle", "done"} /\ bind.n < MaxBindOps
    /\ LET b == [BindOp("ArgoWorkflowsDeployedFlow.from_deployment") EXCEPT
                    !.identifier = identifier, !.metadata = metadata]
           workflow_template == get_workflow_template(identifier)
           flow_name == GetDefault(workflow_template, "flow_name", EmptyStr)
       IN
       IF ~workflow_template.found
       THEN /\ bind' = [b EXCEPT !.result = Raise("MetaflowException")]
            /\ temps' = temps
       ELSE IF ~workflow_template.has_parameters
       THEN /\ bind' = [b EXCEPT !.result = Raise("TypeError")]
            /\ temps' = temps
       ELSE /\ bind' = [b EXCEPT
                          !.pc = "synth",
                          !.file = b.files + 1, !.files = b.files + 1,
                          !.contents = generate_fake_flow_file_contents(
                                           flow_name,
                                           workflow_template.parameters,
                                           workflow_template.project_name)]
            /\ temps' = temps \cup {FlowFile(b.files + 1)}
    /\ UNCHANGED <<mainVars, waitVars, scope, tr>>

\* lines 304-322: Deployer(fake_flow_file.name, ...).argo_workflows(...), the
\* identity fields, and cls(deployer=d); leaving the with statement closes
\* the file, which was created with delete=False
ArgoFromDeploymentBind ==
    /\ bind.pc = "synth"
    /\ LET workflow_template == get_workflow_template(bind.identifier)
           made == DeployerImplNew("argo-workflows", bind)
           dep == StampIdentity(bind.identifier,
                                GetDefault(workflow_template, "flow_name", EmptyStr),
                                bind.metadata, bind.file)
           handle == [name |-> DeployedFlowInit(dep).name,
                      flow_name |-> DeployedFlowInit(dep).flow_name,
                      metadata |-> DeployedFlowInit(dep).metadata,
                      flow_file |-> bind.file,
                      project |-> ProjectKwargs(workflow_template.branch_name),
                      deployer_kwargs |-> DeployerKwargs(workflow_template.branch_name,
                                                         bind.identifier),
                      parameters |-> ParametersOf(bind.contents),
                      identifier |-> bind.identifier]
       IN
       IF ~FromCliOk(bind.contents)
       THEN bind' = [made EXCEPT !.pc = "done", !.result = Raise("FlowFileError")]
       ELSE bind' = [made EXCEPT !.pc = "done", !.result = ReturnFlow,
                                 !.handles = bind.handles \cup {handle}]
    /\ UNCHANGED <<mainVars, waitVars, temps, scope, tr>>

\* A process that constructs deployers and recovers deployed flows.
NextBind ==
    \/ \E type \in Types : DeployerImplInit(type)
    \/ \E type \in Types : BuildAndRunCommand(type)
    \/ \E identifier \in Identifiers, metadata \in {None, Str(32)}, impl \in Impls :
          DeployedFlowFromDeployment(identifier, metadata, impl)
    \/ \E identifier \in Identifiers, metadata \in {None, Str(32)} :
          ArgoFromDeploymentSynthesize(identifier, metadata)
    \/ ArgoFromDeploymentBind

SpecBind == Init /\ [][NextBind]_vars

(***************************************************************************)
(* DeployerImpl as a context manager: `with deployer: ...`                 *)
(***************************************************************************)
Killed == 0 - 15         \* returncode of a child terminated by cleanup

\* the exception, if any, with which the controlling thread leaves the block:
\* the one its last operation raised
LeavingWith ==
    IF call[Controller].result.kind = "raise"
    THEN call[Controller].result ELSE NoResult

\* __exit__(exc_type, exc_value, traceback), lines 383-387: cleanup is called
\* whatever exc_type is, and the method returns None
DeployerImplExit_OnSuccessOnly(exc) ==
    [cleanup |-> exc.kind # "raise", returns |-> None]
DeployerImplExit(exc) == [cleanup |-> TRUE, returns |-> None]

\* a with statement suppresses the exception only if __exit__ returns a
\* true value
Suppresses(returned) == returned \notin {None, EmptyDict}

\* spm.cleanup(): every child the runner still tracks as running is ended
SpmCleanup ==
    [c \in Callers |->
        IF child[c].st = "running"
        THEN [child[c] EXCEPT !.st = "exited", !.code = Killed]
        ELSE child[c]]

\* __enter__, lines 322-323
ScopeEnter ==
    /\ scope.pc = "none"
    /\ call[Controller].pc = "idle"
    /\ scope' = [scope EXCEPT !.pc = "with"]
    /\ UNCHANGED <<mainVars, waitVars, temps, bind, tr>>

\* the block is left, normally or by the exception of the operation that
\* has just raised, and __exit__ runs
ScopeExit ==
    /\ scope.pc = "with"
    /\ Free(Controller)
    /\ LET x == DeployerImplExit(LeavingWith) IN
       /\ scope' = [pc |-> "exited",
                    cleanups |-> scope.cleanups + (IF x.cleanup THEN 1 ELSE 0),
                    exc |-> LeavingWith,
                    suppressed |-> Suppresses(x.returns)]
       /\ child' = IF x.cleanup THEN SpmCleanup ELSE child
    /\ UNCHANGED <<backend, file_read_timeout, d, flows, runs, spawned, call,
                   waitVars, temps, bind, tr>>

\* One controlling thread using the deployer, inside or outside a with-block.
NextScope ==
    \/ ScopeEnter
    \/ ScopeExit
    \/ ChildWrite(Controller)
    \/ ChildExit(Controller)
    \/ CreateSpawn(Controller)
    \/ CreateHandleTimeout(Controller)
    \/ CreateFinish(Controller)
    \/ ArgoTriggerSpawn(Controller)
    \/ ArgoTriggerHandleTimeout(Controller)
    \/ ArgoTriggerFinish(Controller)
    \/ SfnTriggerSpawn(Controller)
    \/ SfnTriggerHandleTimeout(Controller)
    \/ SfnTriggerFinish(Controller)

SpecScope == Init /\ [][NextScope]_vars

(***************************************************************************)
(* Properties.                                                             *)
(***************************************************************************)
Done(c) == call[c].pc = "done"
Exited(c) == child[c].st = "exited"
NoPayloadVerbs == RunVerbs \cup {"delete", "list_runs"}

\* C1: whenever _create ends while its child has exited non-zero or the
\* payload is malformed, the call raises, returns no DeployedFlow and leaves
\* the deployer's name, flow_name, metadata and additional_info as they were.
C1_NoPartialState ==
    [][\A c \in Callers :
          ( /\ call[c].op = "create" /\ call[c].pc = "finish"
            /\ call'[c].pc = "done"
            /\ \/ (Exited(c) /\ child[c].code # 0)
               \/ ~JsonLoadsOk(call[c].content)
               \/ ~HasGet(call[c].content) )
          => /\ call'[c].result.kind = "raise"
             /\ flows' = flows
             /\ d' = d]_vars

\* C2: a finished trigger returned a TriggeredRun only if its child
\* exited with code zero, the run then carries the payload's metadata,
\* pathspec and name, and whenever the child exited non-zero the call raised
\* the generic "Error triggering" failure.
C2_Original ==
    \A c \in Callers :
        (call[c].op = "trigger" /\ Done(c)) =>
            /\ call[c].result.kind = "TriggeredRun" =>
                  /\ Exited(c) /\ child[c].code = 0
                  /\ call[c].run = TriggeredRunInit(child[c].doc)
            /\ (Exited(c) /\ child[c].code # 0) =>
                  call[c].result = Raise(ErrorTriggering)

\* C2 amended: a finished trigger returned a TriggeredRun only if its child
\* exited with code zero, the run then carries the payload's metadata,
\* pathspec and name, and whenever the read delivered a payload and the child
\* exited non-zero the call raised the generic "Error triggering" failure.
C2_GenericFailureAfterPayload ==
    \A c \in Callers :
        (call[c].op = "trigger" /\ Done(c)) =>
            /\ call[c].result.kind = "TriggeredRun" =>
                  /\ Exited(c) /\ child[c].code = 0
                  /\ call[c].run.metadata_for_flow = Get(child[c].doc, "metadata")
                  /\ call[c].run.pathspec = Get(child[c].doc, "pathspec")
                  /\ call[c].run.name = Get(child[c].doc, "name")
            /\ (call[c].delivered /\ Exited(c) /\ child[c].code # 0) =>
                  call[c].result = Raise(ErrorTriggering)

\* one caller got its TriggeredRun, the other the generic failure although its
\* child had written a payload
C2_Witness ==
    \E c1, c2 \in Callers :
        /\ call[c1].op = "trigger" /\ Done(c1)
        /\ call[c1].result.kind = "TriggeredRun"
        /\ call[c2].op = "trigger" /\ Done(c2)
        /\ call[c2].delivered /\ child[c2].code = 1
        /\ call[c2].result = Raise(ErrorTriggering)

\* C3: a verb that expects no payload returns True exactly when its child's
\* exit code was zero and False exactly when it was non-zero.
C3_BoolIsExitCode ==
    \A c \in Callers :
        ( /\ call[c].op \in NoPayloadVerbs /\ Done(c)
          /\ call[c].result.kind = "bool" /\ Exited(c) )
        => (call[c].result.val <=> child[c].code = 0)

\* C4: two trigger invocations never hold the same result channel, and a
\* returned TriggeredRun carries the payload that the child of its own
\* invocation wrote.
C4_OwnPayload ==
    /\ \A c1, c2 \in Callers :
          ( /\ c1 # c2
            /\ call[c1].op = "trigger" /\ call[c2].op = "trigger" )
          => call[c1].ch # call[c2].ch
    /\ \A c \in Callers :
          (call[c].op = "trigger" /\ call[c].result.kind = "TriggeredRun")
          => /\ child[c].ch = call[c].ch
             /\ call[c].run = TriggeredRunInit(child[c].doc)

\* two interleaved triggers both returned, each with its own run
C4_Witness ==
    \E c1, c2 \in Callers :
        /\ c1 # c2
        /\ call[c1].result.kind = "TriggeredRun"
        /\ call[c2].result.kind = "TriggeredRun"
        /\ call[c1].run # call[c2].run
        /\ call[c1].run.pathspec = PathspecOf(child[c1].pid)
        /\ call[c2].run.pathspec = PathspecOf(child[c2].pid)

\* C5: a create or trigger whose read, made under the configured timeout,
\* received no bytes has raised the timeout failure of the read: not the
\* generic failure, and no handle, whatever the child does afterwards.
C5_TimeoutPropagates ==
    \A c \in Callers :
        ( /\ call[c].op \in {"create", "trigger"}
          /\ call[c].bound = file_read_timeout
          /\ call[c].timedout )
        => /\ Done(c)
           /\ call[c].result = Raise("TimeoutFailure")
           /\ call[c].flow = NoFlow /\ call[c].run = NoRun

\* a create and a trigger have both timed out and the child of each has since
\* exited with code zero
C5_Witness ==
    \E c1, c2 \in Callers :
        /\ call[c1].op = "create" /\ call[c1].timedout
        /\ call[c2].op = "trigger" /\ call[c2].timedout
        /\ call[c2].bound = file_read_timeout
        /\ Exited(c1) /\ child[c1].code = 0
        /\ Exited(c2) /\ child[c2].code = 0

\* C6: every result-channel read of create and trigger is given the
\* deployer's configured file_read_timeout as its bound.
C6_ReadsBoundedByConfiguredTimeout ==
    \A c \in Callers :
        call[c].bound # NoBound => call[c].bound = file_read_timeout

\* C9: no TriggeredRun with a null pathspec is ever constructed.
C9_NoNullPathspec ==
    \A r \in runs : r.pathspec # None

\* C10: a field absent from the payload becomes None (additional_info: empty)
\* and no later use of the handle crashes because of it.
C10_AbsentFieldsNeverCrash ==
    /\ \A r \in runs : \A f \in DOMAIN r : r[f] # Absent
    /\ d # NoAttrs => \A f \in DOMAIN d : d[f] # Absent
    /\ \A c \in Callers :
          (call[c].op \in RunVerbs /\ Done(c)) => call[c].result.kind # "raise"

C16_NoResidueAfterCreateDelete ==
    ( /\ call[Controller].op = "delete" /\ Done(Controller)
      /\ call[Controller].result.kind = "bool"
      /\ flows # {}
      /\ child[Controller].pid = 2 /\ spawned = 2 )
    => /\ temps = {}
       /\ \A c \in Callers : child[c].st # "running"

\* C18: a finished _create has returned a DeployedFlow exactly when its child
\* exited with code zero and the payload recovered from the channel is a JSON
\* object, and the handle's name, flow_name and metadata are the payload's.
C18_CreateReturnsFlowOfPayload ==
    \A c \in Callers :
        (call[c].op = "create" /\ Done(c)) =>
            /\ call[c].result = ReturnFlow <=>
                   ( /\ call[c].delivered /\ HasGet(child[c].doc)
                     /\ Exited(c) /\ child[c].code = 0 )
            /\ call[c].result = ReturnFlow =>
                   /\ call[c].flow.name = Get(child[c].doc, "name")
                   /\ call[c].flow.flow_name = Get(child[c].doc, "flow_name")
                   /\ call[c].flow.metadata = Get(child[c].doc, "metadata")
                   /\ call[c].flow \in flows

C18_Witness ==
    \E c \in Callers :
        /\ call[c].op = "create" /\ Done(c) /\ call[c].result = ReturnFlow
        /\ child[c].code = 0
        /\ call[c].flow.name = Str(1) /\ call[c].flow.flow_name = Str(11)
        /\ call[c].flow.metadata = Str(21)

\* C15: once the with-block around a DeployerImpl has been left, by normal
\* completion or by an exception of create or trigger (a timeout included),
\* cleanup has been invoked and the exception has not been suppressed.
C15_CleanupOnEveryExit ==
    scope.pc = "exited" =>
        /\ scope.cleanups >= 1
        /\ scope.exc.kind = "raise" => ~scope.suppressed

C15_Witness ==
    /\ scope.pc = "exited"
    /\ scope.exc = Raise("TimeoutFailure")
    /\ scope.cleanups = 1
    /\ child[Controller].code = Killed

\* C11: a status read for which the orchestrator reported no such workflow
\* returned None without raising, is_running is then False, and is_running
\* is True exactly when the status it read is Pending or Running.
C11_NotFoundIsNone ==
    /\ tr.orch = "None" => tr.status = "None"
    /\ tr.running_status = "None" => tr.running = "False"
    /\ tr.running = "True" <=> tr.running_status \in {"Pending", "Running"}

C11_Witness ==
    /\ tr.orch = "None" /\ tr.status = "None"
    /\ tr.running = "False" /\ tr.running_status = "None"

\* C12: every read of TriggeredRun.run returns None, without raising, when
\* the run of its pathspec does not exist at that moment and the run object
\* when it does, whatever an earlier read returned.
C12_RunLookedUpOnEveryAccess ==
    tr.run # "unread" =>
        /\ tr.run # "raised"
        /\ tr.run = "Run" <=> tr.found

C12_Witness == tr.first_run = "None" /\ tr.run = "Run" /\ tr.found

\* C19: the status query names the flow and the run-id segment of the
\* pathspec without its backend prefix ("argo-" or "sfn-").
C19_QueryStripsBackendPrefix ==
    tr.queried # <<>> =>
        \/ /\ tr.text = ArgoPathspecText
           /\ tr.queried = <<<<"M", "y", "F", "l", "o", "w">>, <<"X">>>>
        \/ /\ tr.text = SfnPathspecText
           /\ tr.queried = <<<<"M", "y", "F", "l", "o", "w">>, <<"a", "b", "c", "1", "2", "3">>>>

\* C13: constructing a deployer whose TYPE is None, and building a command
\* for the type None, each end in ValueError with no SubprocessManager created
\* and no child spawned by that step.
C13_UnsetTypeFailsFirst ==
    [][ ( /\ bind'.n = bind.n + 1
          /\ bind'.op \in {"__init__", "command"}
          /\ bind'.type = NoType )
        => /\ bind'.result = Raise("ValueError")
           /\ bind'.spms = bind.spms
           /\ bind'.spawns = bind.spawns
           /\ spawned' = spawned ]_vars

C13_Witness ==
    /\ bind.op = "__init__" /\ bind.type = NoType
    /\ bind.result = Raise("ValueError")
    /\ bind.spms = 0 /\ bind.spawns = 0

\* C14: DeployedFlow.from_deployment called with an impl that is not a
\* registered provider ends by raising.
C14_UnknownImplRaises ==
    ( /\ bind.op = "DeployedFlow.from_deployment" /\ bind.pc = "done"
      /\ bind.impl \notin allowed_providers )
    => bind.result.kind = "raise"

\* C17: whenever no create, trigger or from_deployment is in progress, no temp
\* file, temp directory or pipe allocated by one of them is left on disk.
C17_TempsReleasedAtEnd ==
    ( /\ bind.pc \in {"idle", "done"}
      /\ \A c \in Callers : call[c].pc \in {"idle", "done"} )
    => temps = {}

C21_IdentityFromAnnotations ==
    ( /\ bind.op = "ArgoWorkflowsDeployedFlow.from_deployment"
      /\ bind.pc = "done" /\ bind.result = ReturnFlow )
    => \E h \in bind.handles :
          /\ h.flow_file = bind.file
          /\ h.name = Str(bind.identifier)
          /\ h.flow_name = get_workflow_template(bind.identifier).flow_name
          /\ h.metadata = (IF bind.metadata = None THEN Str(31) ELSE bind.metadata)

C21_Witness ==
    /\ bind.op = "ArgoWorkflowsDeployedFlow.from_deployment"
    /\ bind.pc = "done" /\ bind.result = ReturnFlow
    /\ bind.identifier = 2 /\ bind.metadata = Str(32)
    /\ \E h \in bind.handles :
          h.name = Str(2) /\ h.flow_name = Str(42) /\ h.metadata = Str(32)

\* C22: a branch annotation "prod.a" gives production=True and branch "a",
\* "test.a" gives branch "a" without production, "prod" gives production=True
\* without a branch, "user.a" gives neither, and name=identifier is handed to
\* the backend exactly when the template has no branch annotation.
C22_BranchDecoding ==
    \A h \in bind.handles :
        LET b == get_workflow_template(h.identifier).branch_name IN
        /\ b = <<"p", "r", "o", "d", ".", "a">> =>
              h.project = [production |-> "True", branch |-> <<"a">>]
        /\ b = <<"t", "e", "s", "t", ".", "a">> =>
              h.project = [production |-> "absent", branch |-> <<"a">>]
        /\ b = <<"p", "r", "o", "d">> =>
              h.project = [production |-> "True", branch |-> <<>>]
        /\ b = <<"u", "s", "e", "r", ".", "a">> =>
              h.project = [production |-> "absent", branch |-> <<>>]
        /\ b = <<>> <=> h.deployer_kwargs.name = Str(h.identifier)
        /\ b # <<>> <=> h.deployer_kwargs.name = Absent

C22_Witness ==
    /\ \E h \in bind.handles :
          /\ h.identifier = 2 /\ h.project.production = "True"
          /\ h.project.branch = <<"a">> /\ h.deployer_kwargs.name = Absent
    /\ \E h \in bind.handles :
          h.identifier = 1 /\ h.deployer_kwargs.name = Str(1)

\* C28: DeployedFlow.from_deployment called with a registered impl ends by
\* returning the handle its backend reconstructed.
C28_RegisteredImplReturnsHandle ==
    ( /\ bind.op = "DeployedFlow.from_deployment" /\ bind.pc = "done"
      /\ bind.impl \in allowed_providers )
    => bind.result = ReturnFlow

\* C23: a caller that is not inside a lifecycle operation has no child still
\* running: every operation ends only after the child it spawned has exited.
C23_NoChildOutlivesItsOperation ==
    \A c \in Callers : Free(c) => child[c].st # "running"

\* C27: every DeployedFlow the deployer has returned has the name, flow_name
\* and metadata that the deployer has now.
C27_HandlesAgreeWithDeployer ==
    \A f \in flows :
        /\ f.name = d.name
        /\ f.flow_name = d.flow_name
        /\ f.metadata = d.metadata

C26_ReturnsOnlyWhenTerminal ==
    w.pc = "returned" => w.seen \in {"Succeeded", "Failed"}

\* C24: a read of status or is_running changes neither the deployer's
\* attributes, nor its handles and runs, nor the children its process runner
\* has started, nor the temporary files, nor the TriggeredRun's pathspec; and
\* the value it returns is the one the orchestrator reports at that access,
\* whatever an earlier access returned.
C24_PureReads ==
    [][(StatusAccess \/ IsRunningAccess) =>
          /\ UNCHANGED <<mainVars, temps, scope, bind>>
          /\ tr'.pathspec = tr.pathspec
          /\ tr'.text = tr.text
          /\ (StatusAccess /\ tr'.status # "raised") =>
                /\ tr'.orch = wstatus
                /\ tr'.status = StatusOf(wstatus)
          /\ (IsRunningAccess /\ tr'.running # "raised") =>
                /\ tr'.running_status = StatusOf(wstatus)
                /\ tr'.running = "True" <=>
                      StatusOf(wstatus) \in {"Pending", "Running"}]_vars

C24_Witness ==
    /\ tr.first_status = "None"
    /\ tr.status = "Succeeded"
    /\ tr.running = "False" /\ tr.running_status = "Succeeded"
    /\ spawned = 0 /\ temps = {}

====
